---- MODULE Spec2Model ----
(***************************************************************************)
(* Model of bevy_mod_bcc: the decoder of the binary curve collection        *)
(* (BCC) file format, in its blocking form (parse) and its suspending form   *)
(* (parse_async), and the line-strip mesh builder.                           *)
(*                                                                           *)
(* A byte is a number in 0..255.  An f32 is held as its 32-bit pattern; the  *)
(* decoder copies the file's bytes into the f32 buffer, which on the         *)
(* little-endian targets modelled here reads them as little-endian.          *)
(* Integers are 64-bit in the code; the model keeps every value below 2^31   *)
(* and computes the two's-complement forms bytewise.                         *)
(***************************************************************************)
EXTENDS Integers, Sequences, FiniteSets, TLC

(***************************************************************************)
(* Bounds of the model.                                                      *)
(***************************************************************************)
\* most curve records in a generated file
MaxCurves == 2
\* most control points in one curve record
MaxCount == 1
\* largest control-point count declared in a generated header
MaxPoints == 2

(***************************************************************************)
(* Constants of the file format, as the decoder spells them.                 *)
(***************************************************************************)
SIGNATURE == <<66, 67, 67>>            \* b"BCC"
PRECISION == 68                        \* 0x44
CURVE == <<67, 48>>                    \* b"C0"
UP_DIRECTIONS == 1..2
DIMENSIONS == 3
FILE_INFORMATION_LEN == 40

Min(a, b) == IF a < b THEN a ELSE b

(***************************************************************************)
(* Integer conversions.                                                      *)
(***************************************************************************)
RECURSIVE u64_from_le_bytes(_)
u64_from_le_bytes(b) ==
    IF b = <<>> THEN 0 ELSE Head(b) + 256 * u64_from_le_bytes(Tail(b))

\* i32::from_le_bytes: the top byte carries the sign.
i32_from_le_bytes(b) ==
    LET top == IF b[4] >= 128 THEN b[4] - 256 ELSE b[4]
    IN  ((top * 256 + b[3]) * 256 + b[2]) * 256 + b[1]

I32_MIN == -2147483647 - 1

\* i32::abs followed by usize::try_from.  abs overflows on i32::MIN: a panic
\* with overflow checks (debug builds), a wrap to i32::MIN without them, which
\* try_from then rejects.
abs_to_usize(n, debug) ==
    IF n = I32_MIN
    THEN IF debug THEN [kind |-> "panic", size |-> 0]
                  ELSE [kind |-> "TooManyControlPoints", size |-> 0]
    ELSE [kind |-> "Ok", size |-> IF n < 0 THEN -n ELSE n]

\* mutant: the four bytes read as big-endian
f32_from_be_bytes(b) == ((b[1] * 256 + b[2]) * 256 + b[3]) * 256 + b[4]

\* f32 read in place from four bytes of the file (little-endian target).
f32_from_ne_bytes(b) == ((b[4] * 256 + b[3]) * 256 + b[2]) * 256 + b[1]

RECURSIVE floats_from_bytes(_)
floats_from_bytes(b) ==
    IF Len(b) < 4 THEN <<>>
    ELSE <<f32_from_ne_bytes(SubSeq(b, 1, 4))>> \o floats_from_bytes(SubSeq(b, 5, Len(b)))

(***************************************************************************)
(* The byte layout of the file format, used to generate the inputs.          *)
(***************************************************************************)
RECURSIVE le_bytes(_, _)
le_bytes(v, n) == IF n = 0 THEN <<>> ELSE <<v % 256>> \o le_bytes(v \div 256, n - 1)

\* two's complement of a 32-bit signed value, low byte first
i32_to_le_bytes(n) ==
    IF n >= 0 THEN le_bytes(n, 4)
    ELSE LET m == le_bytes(-(n + 1), 4) IN [k \in 1..4 |-> 255 - m[k]]

RECURSIVE Flatten(_)
Flatten(ss) == IF ss = <<>> THEN <<>> ELSE Head(ss) \o Flatten(Tail(ss))

EncodePoint(p) == Flatten([c \in 1..Len(p) |-> le_bytes(p[c], 4)])

EncodeCurve(cv) ==
    i32_to_le_bytes(IF cv.looping THEN -Len(cv.points) ELSE Len(cv.points))
        \o Flatten([j \in 1..Len(cv.points) |-> EncodePoint(cv.points[j])])

EncodeHeader(h) ==
    h.signature \o <<h.precision>> \o h.curve \o <<h.dimensions, h.up_direction>>
        \o le_bytes(h.number_of_curves, 8) \o le_bytes(h.number_of_control_points, 8)
        \o h.file_information

Encode(d) == EncodeHeader(d.header) \o Flatten([i \in 1..Len(d.curves) |-> EncodeCurve(d.curves[i])])

(***************************************************************************)
(* Results.  A decode ends with a Collection (kind "Ok"), with one of the    *)
(* error kinds of BinaryCurveCollectionParserError, or with a panic.  pos is *)
(* the number of bytes taken from the reader.                                *)
(***************************************************************************)
ErrorKinds ==
    {"InvalidSignature", "InvalidPrecision", "InvalidCurve", "InvalidUpDirection",
     "TooManyCurves", "TooManyControlPoints", "Io"}

NoHeader ==
    [signature |-> <<>>, precision |-> 0, curve |-> <<>>, dimensions |-> 0,
     up_direction |-> 0, number_of_curves |-> 0, number_of_control_points |-> 0,
     file_information |-> <<>>]

NoOutcome ==
    [kind |-> "none", pos |-> 0, header |-> NoHeader, looping |-> <<>>,
     first_control_points |-> <<>>, control_points |-> <<>>]

Err(kind, pos) == [NoOutcome EXCEPT !.kind = kind, !.pos = pos]

\* mutant: a read that takes what is there and leaves the rest of the buffer
\* zeroed, without failing
read_some(data, pos, n) ==
    IF Len(data) - pos >= n
    THEN [ok |-> TRUE, bytes |-> SubSeq(data, pos + 1, pos + n), pos |-> pos + n]
    ELSE [ok |-> TRUE,
          bytes |-> [k \in 1..n |-> IF pos + k <= Len(data) THEN data[pos + k] ELSE 0],
          pos |-> Len(data)]

(***************************************************************************)
(* std::io::Read::read_exact on a reader holding data from position pos:     *)
(* n bytes, or an UnexpectedEof error once the reader is drained.            *)
(***************************************************************************)
read_exact(data, pos, n) ==
    IF Len(data) - pos >= n
    THEN [ok |-> TRUE, bytes |-> SubSeq(data, pos + 1, pos + n), pos |-> pos + n]
    ELSE [ok |-> FALSE, bytes |-> <<>>, pos |-> Len(data)]

\* usize::try_from(u64): every u64 fits the usize of a 64-bit target.
usize_try_from(v) == [ok |-> v \in Nat, value |-> v]

\* mutant: the signature goes unchecked
signature_unchecked(signature) == TRUE

\* the header checks of parse
signature_ok(signature) == signature = SIGNATURE
precision_ok(precision) == precision = PRECISION
curve_ok(curve) == curve = CURVE
up_direction_ok(up_direction) == up_direction \in UP_DIRECTIONS

\* the error parse returns for a precision byte other than 0x44
precision_error == "InvalidSignature"
\* the error parse returns for a curve type other than C0
curve_error == "InvalidSignature"

\* vec![value; n]
vec(value, n) == [k \in 1..n |-> value]

\* mutant: a count of zero taken as looping
is_looping_or_empty(curve_control_points) == curve_control_points <= 0

is_looping(curve_control_points) == curve_control_points < 0

(***************************************************************************)
(* read_curves.  The loop state: kind ("Ok" while running), the reader's     *)
(* position, the index i of the next curve, previous_control_point_start,    *)
(* the three buffers, and rest, the number of values of control_points       *)
(* already split off the front of the shrinking slice.                       *)
(***************************************************************************)
read_curves_body(data, st, debug) ==
    LET r == read_exact(data, st.pos, 4) IN
    IF ~r.ok THEN [st EXCEPT !.kind = "Io", !.pos = r.pos] ELSE
    LET curve_control_points == i32_from_le_bytes(r.bytes)
        looping == [st.looping EXCEPT ![st.i + 1] = is_looping(curve_control_points)]
        first == [st.first_control_points EXCEPT ![st.i + 1] = st.previous_control_point_start]
        a == abs_to_usize(curve_control_points, debug)
        s1 == [st EXCEPT !.pos = r.pos, !.looping = looping, !.first_control_points = first]
    IN
    IF a.kind # "Ok" THEN [s1 EXCEPT !.kind = a.kind] ELSE
    LET size == a.size
        s2 == [s1 EXCEPT !.previous_control_point_start = @ + size]
    IN
    \* control_points[..(size * 3)] panics past the end of the slice
    IF size * 3 > Len(st.control_points) - st.rest THEN [s2 EXCEPT !.kind = "panic"] ELSE
    LET p == read_exact(data, r.pos, size * 4 * 3) IN
    IF ~p.ok THEN [s2 EXCEPT !.kind = "Io", !.pos = p.pos] ELSE
    LET values == floats_from_bytes(p.bytes) IN
    [s2 EXCEPT !.pos = p.pos,
               !.control_points = [k \in 1..Len(@) |->
                    IF k > st.rest /\ k <= st.rest + size * 3 THEN values[k - st.rest] ELSE @[k]],
               !.rest = @ + size * 3,
               !.i = @ + 1]

RECURSIVE read_curves_loop(_, _, _)
read_curves_loop(data, st, debug) ==
    \* zip(looping.iter_mut(), first_control_points.iter_mut())
    IF st.kind # "Ok" \/ st.i >= Min(Len(st.looping), Len(st.first_control_points)) THEN st
    ELSE read_curves_loop(data, read_curves_body(data, st, debug), debug)

read_curves_end(st, debug) ==
    LET s1 == [st EXCEPT !.first_control_points[Len(st.first_control_points)] =
                             st.previous_control_point_start] IN
    \* debug_assert!(control_points.is_empty())
    IF debug /\ s1.rest # Len(s1.control_points) THEN [s1 EXCEPT !.kind = "panic"] ELSE s1

read_curves(data, pos, looping, first_control_points, control_points, debug) ==
    LET st == read_curves_loop(data,
                  [kind |-> "Ok", pos |-> pos, i |-> 0, previous_control_point_start |-> 0,
                   looping |-> looping, first_control_points |-> first_control_points,
                   control_points |-> control_points, rest |-> 0], debug)
    IN IF st.kind # "Ok" THEN st ELSE read_curves_end(st, debug)

(***************************************************************************)
(* parse: the blocking decoder.                                              *)
(***************************************************************************)
parse(data, debug) ==
    LET signature == read_exact(data, 0, 3) IN
    IF ~signature.ok THEN Err("Io", signature.pos) ELSE
    IF ~signature_ok(signature.bytes) THEN Err("InvalidSignature", signature.pos) ELSE
    LET precision == read_exact(data, signature.pos, 1) IN
    IF ~precision.ok THEN Err("Io", precision.pos) ELSE
    IF ~precision_ok(precision.bytes[1]) THEN Err(precision_error, precision.pos) ELSE
    LET curve == read_exact(data, precision.pos, 2) IN
    IF ~curve.ok THEN Err("Io", curve.pos) ELSE
    IF ~curve_ok(curve.bytes) THEN Err(curve_error, curve.pos) ELSE
    LET dimensions == read_exact(data, curve.pos, 1) IN
    IF ~dimensions.ok THEN Err("Io", dimensions.pos) ELSE
    LET up_direction == read_exact(data, dimensions.pos, 1) IN
    IF ~up_direction.ok THEN Err("Io", up_direction.pos) ELSE
    IF ~up_direction_ok(up_direction.bytes[1]) THEN Err("InvalidUpDirection", up_direction.pos) ELSE
    LET number_of_curves == read_exact(data, up_direction.pos, 8) IN
    IF ~number_of_curves.ok THEN Err("Io", number_of_curves.pos) ELSE
    LET number_of_control_points == read_exact(data, number_of_curves.pos, 8) IN
    IF ~number_of_control_points.ok THEN Err("Io", number_of_control_points.pos) ELSE
    LET file_information == read_exact(data, number_of_control_points.pos, FILE_INFORMATION_LEN) IN
    IF ~file_information.ok THEN Err("Io", file_information.pos) ELSE
    LET size_of_curves == usize_try_from(u64_from_le_bytes(number_of_curves.bytes))
        size_of_control_points == usize_try_from(u64_from_le_bytes(number_of_control_points.bytes))
    IN
    IF ~size_of_curves.ok THEN Err("TooManyCurves", file_information.pos) ELSE
    IF ~size_of_control_points.ok THEN Err("TooManyControlPoints", file_information.pos) ELSE
    LET st == read_curves(data, file_information.pos,
                  vec(FALSE, size_of_curves.value),
                  vec(0, size_of_curves.value + 1),
                  vec(0, size_of_control_points.value * DIMENSIONS), debug)
    IN
    IF st.kind # "Ok" THEN Err(st.kind, st.pos) ELSE
    [kind |-> "Ok", pos |-> st.pos,
     header |-> [signature |-> signature.bytes, precision |-> precision.bytes[1],
                 curve |-> curve.bytes, dimensions |-> dimensions.bytes[1],
                 up_direction |-> up_direction.bytes[1],
                 number_of_curves |-> u64_from_le_bytes(number_of_curves.bytes),
                 number_of_control_points |-> u64_from_le_bytes(number_of_control_points.bytes),
                 file_information |-> file_information.bytes],
     looping |-> st.looping,
     first_control_points |-> st.first_control_points,
     control_points |-> st.control_points]

(***************************************************************************)
(* BinaryCurveCollectionMeshBuilder::build.  The indices are u32 and the     *)
(* offsets they are made from usize; the restart index u32::MAX is           *)
(* 4294967295, past the integers TLC computes with, so the builder's offsets *)
(* and indices are held as two digits of base 2^16, <<high, low>>, of value  *)
(* high * 65536 + low: <<0, 7>> is 7 and <<65535, 65535>> is 4294967295.     *)
(***************************************************************************)
Half == 2 ^ 16

\* the usize of value v
usize(v) == <<v \div Half, v % Half>>

\* a + k for 0 <= k < 2^16
usize_add(a, k) == <<a[1] + (a[2] + k) \div Half, (a[2] + k) % Half>>

\* a < b
usize_lt(a, b) == a[1] < b[1] \/ (a[1] = b[1] /\ a[2] < b[2])

U32_MAX == <<Half - 1, Half - 1>>

NoMesh == [kind |-> "none", vertices |-> <<>>, indices |-> <<>>]
MeshPanic == [NoMesh EXCEPT !.kind = "panic"]

\* an f32 of a vertex: the sign bit apart from the other 31 bits
f32(bits) == [sign |-> 0, bits |-> bits]
f32_neg(x) == [x EXCEPT !.sign = 1 - @]

y_up(chunk) == <<f32(chunk[1]), f32(chunk[2]), f32(chunk[3])>>
z_up(chunk) == <<f32(chunk[1]), f32_neg(f32(chunk[3])), f32(chunk[2])>>

\* control_points.chunks(3): the last chunk may be shorter
chunks3(values) ==
    [k \in 1..((Len(values) + 2) \div 3) |-> SubSeq(values, 3 * k - 2, Min(3 * k, Len(values)))]

\* mutant: a conversion that lets the values of 33 bits through
u32_try_from_wide(v) == v[1] < 2 * Half

\* u32::try_from(usize): whether the value fits the index type, which is
\* whether its high digit does; the u32 is then the same two digits
u32_try_from(v) == v[1] < Half

\* mutant: the range with its end, l..=r
RECURSIVE range_inclusive(_, _)
range_inclusive(l, r) ==
    IF usize_lt(r, l) THEN <<>>
    ELSE <<l>> \o (IF l = r THEN <<>> ELSE range_inclusive(usize_add(l, 1), r))

\* l..r
RECURSIVE range(_, _)
range(l, r) == IF usize_lt(l, r) THEN <<l>> \o range(usize_add(l, 1), r) ELSE <<>>

\* whether the curve ending at r gets no restart index after it
is_last(r, number_of_control_points) == r = number_of_control_points

\* the indices one curve adds
curve_indices(l, r, looping, number_of_control_points) ==
    range(l, r)
        \o (IF looping THEN <<l>> ELSE <<>>)
        \o (IF ~is_last(r, number_of_control_points) THEN <<U32_MAX>> ELSE <<>>)

NoBlock == [kind |-> "none", indices |-> <<>>]
NoWindow == [l |-> usize(0), r |-> usize(0), looping |-> FALSE,
             number_of_control_points |-> usize(0)]

\* the body of the loop over windows(2).zip(looping): the two conversions,
\* which panic on an offset that does not fit, then the indices of the curve
curve_block(l, r, looping, number_of_control_points) ==
    IF ~u32_try_from(r) \/ ~u32_try_from(l) THEN [NoBlock EXCEPT !.kind = "panic"]
    ELSE [kind |-> "Ok", indices |-> curve_indices(l, r, looping, number_of_control_points)]

build(bcc, debug) ==
    LET number_of_control_points == bcc.header.number_of_control_points
        looping_curves == Cardinality({i \in 1..Len(bcc.looping) : bcc.looping[i]})
        windows == Min(Len(bcc.first_control_points) - 1, Len(bcc.looping))
        sum == number_of_control_points + looping_curves + Len(bcc.looping)
        \* usize subtraction: 0 - 1 panics with overflow checks and wraps without
        \* them, and Vec::with_capacity(usize::MAX) panics on capacity overflow
        indices_len == sum - 1
        blocks == [i \in 1..windows |->
                      curve_block(usize(bcc.first_control_points[i]),
                                  usize(bcc.first_control_points[i + 1]),
                                  bcc.looping[i], usize(number_of_control_points))]
        indices == Flatten([i \in 1..windows |-> blocks[i].indices])
    IN
    IF bcc.header.dimensions # DIMENSIONS THEN MeshPanic        \* unreachable!
    ELSE IF debug /\ Len(bcc.control_points) % 3 # 0 THEN MeshPanic
    ELSE IF bcc.header.up_direction \notin UP_DIRECTIONS THEN MeshPanic
    ELSE IF \E k \in 1..Len(chunks3(bcc.control_points)) :
                Len(chunks3(bcc.control_points)[k]) # 3 THEN MeshPanic
    ELSE IF sum = 0 THEN MeshPanic
    ELSE IF \E i \in 1..windows : blocks[i].kind = "panic" THEN MeshPanic
    \* debug_assert_eq!(indices_capacity, indices.len())
    ELSE IF debug /\ indices_len # Len(indices) THEN MeshPanic
    ELSE [kind |-> "Ok",
          vertices |-> [k \in 1..Len(chunks3(bcc.control_points)) |->
                           IF bcc.header.up_direction = 1
                           THEN y_up(chunks3(bcc.control_points)[k])
                           ELSE z_up(chunks3(bcc.control_points)[k])],
          indices |-> indices]

(***************************************************************************)
(* The inputs: files in the byte layout of the format, generated from a      *)
(* description (a header and the curves with their points), whole or cut     *)
(* short.                                                                    *)
(***************************************************************************)
Signatures == {SIGNATURE, <<88, 89, 90>>}          \* "BCC", "XYZ"
Precisions == {PRECISION, 0}
CurveTypes == {CURVE, <<67, 49>>}                  \* "C0", "C1"
Dimensions == {DIMENSIONS, 2}
UpDirections == {0, 1, 2}
FileInformation == [k \in 1..FILE_INFORMATION_LEN |-> IF k = 1 THEN 65 ELSE 0]
\* the bit patterns of 0.0, 1.0, 2.0, 3.0
FloatBits == <<0, 1065353216, 1073741824, 1077936128>>

PointOf(i, j) == [c \in 1..3 |-> FloatBits[((3 * i + 2 * j + c) % 4) + 1]]

CurveShapes == BOOLEAN \X (0..MaxCount)
Bodies == UNION {[1..m -> CurveShapes] : m \in 0..MaxCurves}
CurvesOf(shape) ==
    [i \in 1..Len(shape) |->
        [looping |-> shape[i][1], points |-> [j \in 1..shape[i][2] |-> PointOf(i, j)]]]

AllDescs ==
    {[header |-> [signature |-> s, precision |-> p, curve |-> c, dimensions |-> d,
                  up_direction |-> u, number_of_curves |-> Len(b),
                  number_of_control_points |-> n, file_information |-> FileInformation],
      curves |-> CurvesOf(b)] :
        s \in Signatures, p \in Precisions, c \in CurveTypes, d \in Dimensions,
        u \in UpDirections, n \in 0..MaxPoints, b \in Bodies}

\* whether the header names the format: the signature, the precision, the curve
\* type and the up direction are the ones the format defines
FormatHeader(h) ==
    /\ h.signature = SIGNATURE
    /\ h.precision = PRECISION
    /\ h.curve = CURVE
    /\ h.up_direction \in UP_DIRECTIONS

\* Behind a header that does not name the format the generated files hold no
\* curve record or one.
Descs == {d \in AllDescs : FormatHeader(d.header) \/ Len(d.curves) <= 1}

(***************************************************************************)
(* parse_async: the suspending decoder, a task that is polled.  pc names the *)
(* read_exact(..).await the task is at, buf holds the bytes that read has    *)
(* got so far, pos counts the bytes taken from the reader, waiting holds     *)
(* while the task is suspended on a reader that had no bytes ready.          *)
(***************************************************************************)
NoTask ==
    [pc |-> "done", pos |-> 0, buf |-> <<>>, waiting |-> FALSE,
     signature |-> <<>>, precision |-> 0, curve |-> <<>>, dimensions |-> 0,
     up_direction |-> 0, number_of_curves |-> 0, number_of_control_points |-> 0,
     file_information |-> <<>>,
     looping |-> <<>>, first_control_points |-> <<>>, control_points |-> <<>>,
     rest |-> 0, i |-> 0, previous_control_point_start |-> 0, size |-> 0]

NewTask == [NoTask EXCEPT !.pc = "signature"]

\* the length of the buffer the pending read_exact fills
Need(t) ==
    CASE t.pc = "signature" -> 3
      [] t.pc = "precision" -> 1
      [] t.pc = "curve" -> 2
      [] t.pc = "dimensions" -> 1
      [] t.pc = "up_direction" -> 1
      [] t.pc = "number_of_curves" -> 8
      [] t.pc = "number_of_control_points" -> 8
      [] t.pc = "file_information" -> FILE_INFORMATION_LEN
      [] t.pc = "curve_control_points" -> 4
      [] t.pc = "control_points" -> t.size * 4 * 3
      [] OTHER -> 0

\* mutant: the precision error corrected in parse_async alone
precision_error_corrected == "InvalidPrecision"

\* the error parse_async returns for a precision byte other than 0x44
precision_error_async == "InvalidSignature"
\* the error parse_async returns for a curve type other than C0
curve_error_async == "InvalidSignature"

\* the task goes on to the read at pc
Await(t, pc) == [t EXCEPT !.pc = pc, !.buf = <<>>]

\* the task returns err
Fail(t, err) == [task |-> [t EXCEPT !.pc = "done", !.buf = <<>>], outcome |-> Err(err, t.pos)]

Continue(t) == [task |-> t, outcome |-> NoOutcome]

\* the future's poll_read got k more bytes for the pending read
fill(t, data, k) ==
    [t EXCEPT !.buf = @ \o SubSeq(data, t.pos + 1, t.pos + k), !.pos = @ + k]

\* read_curves_async between two curves: the next iteration of the loop, or
\* the end of the loop and the return of parse_async
async_next_curve(t, debug) ==
    IF t.i < Min(Len(t.looping), Len(t.first_control_points))
    THEN Continue(Await(t, "curve_control_points"))
    ELSE LET first == [t.first_control_points EXCEPT ![Len(t.first_control_points)] =
                           t.previous_control_point_start]
         IN  \* debug_assert!(control_points.is_empty())
             IF debug /\ t.rest # Len(t.control_points) THEN Fail(t, "panic")
             ELSE [task |-> [t EXCEPT !.pc = "done", !.buf = <<>>, !.first_control_points = first],
                   outcome |->
                      [kind |-> "Ok", pos |-> t.pos,
                       header |-> [signature |-> t.signature, precision |-> t.precision,
                                   curve |-> t.curve, dimensions |-> t.dimensions,
                                   up_direction |-> t.up_direction,
                                   number_of_curves |-> t.number_of_curves,
                                   number_of_control_points |-> t.number_of_control_points,
                                   file_information |-> t.file_information],
                       looping |-> t.looping,
                       first_control_points |-> first,
                       control_points |-> t.control_points]]

\* the code that runs when the read at t.pc has filled its buffer, up to the
\* next await or the return
resume(t, debug) ==
    CASE t.pc = "signature" ->
            IF t.buf # SIGNATURE THEN Fail(t, "InvalidSignature")
            ELSE Continue(Await([t EXCEPT !.signature = t.buf], "precision"))
      [] t.pc = "precision" ->
            IF t.buf[1] # PRECISION THEN Fail(t, precision_error_async)
            ELSE Continue(Await([t EXCEPT !.precision = t.buf[1]], "curve"))
      [] t.pc = "curve" ->
            IF t.buf # CURVE THEN Fail(t, curve_error_async)
            ELSE Continue(Await([t EXCEPT !.curve = t.buf], "dimensions"))
      [] t.pc = "dimensions" ->
            Continue(Await([t EXCEPT !.dimensions = t.buf[1]], "up_direction"))
      [] t.pc = "up_direction" ->
            IF t.buf[1] \notin UP_DIRECTIONS THEN Fail(t, "InvalidUpDirection")
            ELSE Continue(Await([t EXCEPT !.up_direction = t.buf[1]], "number_of_curves"))
      [] t.pc = "number_of_curves" ->
            Continue(Await([t EXCEPT !.number_of_curves = u64_from_le_bytes(t.buf)],
                           "number_of_control_points"))
      [] t.pc = "number_of_control_points" ->
            Continue(Await([t EXCEPT !.number_of_control_points = u64_from_le_bytes(t.buf)],
                           "file_information"))
      [] t.pc = "file_information" ->
            LET size_of_curves == usize_try_from(t.number_of_curves)
                size_of_control_points == usize_try_from(t.number_of_control_points)
            IN  IF ~size_of_curves.ok THEN Fail(t, "TooManyCurves")
                ELSE IF ~size_of_control_points.ok THEN Fail(t, "TooManyControlPoints")
                ELSE async_next_curve(
                        [t EXCEPT !.file_information = t.buf,
                                  !.looping = vec(FALSE, size_of_curves.value),
                                  !.first_control_points = vec(0, size_of_curves.value + 1),
                                  !.control_points = vec(0, size_of_control_points.value * DIMENSIONS),
                                  !.buf = <<>>],
                        debug)
      [] t.pc = "curve_control_points" ->
            LET curve_control_points == i32_from_le_bytes(t.buf)
                a == abs_to_usize(curve_control_points, debug)
                t1 == [t EXCEPT !.looping[t.i + 1] = curve_control_points < 0,
                                !.first_control_points[t.i + 1] = t.previous_control_point_start]
            IN  IF a.kind # "Ok" THEN Fail(t1, a.kind)
                ELSE IF a.size * 3 > Len(t.control_points) - t.rest
                     THEN Fail(t1, "panic")
                     ELSE Continue(Await([t1 EXCEPT !.previous_control_point_start = @ + a.size,
                                                    !.size = a.size],
                                         "control_points"))
      [] t.pc = "control_points" ->
            LET values == floats_from_bytes(t.buf) IN
            async_next_curve(
                [t EXCEPT !.control_points = [k \in 1..Len(@) |->
                              IF k > t.rest /\ k <= t.rest + t.size * 3
                              THEN values[k - t.rest] ELSE @[k]],
                          !.rest = @ + t.size * 3,
                          !.i = @ + 1,
                          !.buf = <<>>],
                debug)

VARIABLES
    desc,               \* the description the file was generated from
    input,              \* the bytes of the byte source
    debug_assertions,   \* whether the build has debug assertions and overflow checks
    driver,             \* the entry point the host calls: "parse" or "parse_async"
    task,               \* the parse_async task
    outcome,            \* what the decoder returned (kind "none" before it returns)
    mesh,               \* what the mesh builder returned (kind "none" before)
    window,             \* the curve the loop of the mesh builder is at, when run on its own
    block               \* the indices the loop added for it (kind "none" before)

vars == <<desc, input, debug_assertions, driver, task, outcome, mesh, window, block>>

\* input starts as the whole generated file.  The reader the decoder is given
\* may hold less: a blocking reader is given with its content, the file cut at
\* any byte (Parse); a suspending reader delivers its content as it arrives,
\* and where it ends shows only when it ends (PollEof).  input is then the
\* content the reader had.
Init ==
    /\ desc \in Descs
    /\ debug_assertions \in BOOLEAN
    /\ driver \in {"parse", "parse_async"}
    /\ input = Encode(desc)
    /\ task = IF driver = "parse_async" THEN NewTask ELSE NoTask
    /\ outcome = NoOutcome
    /\ mesh = NoMesh
    /\ window = NoWindow
    /\ block = NoBlock

\* the host calls BinaryCurveCollection::parse on a reader holding the first
\* cut bytes of the file
Parse ==
    /\ driver = "parse"
    /\ outcome.kind = "none"
    /\ \E cut \in 0..Len(input) :
          /\ input' = SubSeq(input, 1, cut)
          /\ outcome' = parse(input', debug_assertions)
    /\ UNCHANGED <<desc, debug_assertions, driver, task, mesh, window, block>>

Reading == driver = "parse_async" /\ task.pc # "done" /\ Len(task.buf) < Need(task)

\* poll_read hands the pending read some of the bytes it still needs: one
\* byte, or all it can take of what the reader has left (a chunk of any other
\* length is a run of one-byte chunks)
PollRead ==
    /\ Reading /\ ~task.waiting
    /\ task.pos < Len(input)
    /\ \E k \in {1, Min(Need(task) - Len(task.buf), Len(input) - task.pos)} :
          task' = fill(task, input, k)
    /\ UNCHANGED <<desc, input, debug_assertions, driver, outcome, mesh, window, block>>

\* poll_read has no bytes ready: the task is suspended
PollPending ==
    /\ Reading /\ ~task.waiting
    /\ task' = [task EXCEPT !.waiting = TRUE]
    /\ UNCHANGED <<desc, input, debug_assertions, driver, outcome, mesh, window, block>>

\* the reader wakes the task
Wake ==
    /\ driver = "parse_async" /\ task.waiting
    /\ task' = [task EXCEPT !.waiting = FALSE]
    /\ UNCHANGED <<desc, input, debug_assertions, driver, outcome, mesh, window, block>>

\* poll_read returns 0 bytes: the content of the reader ends at the bytes taken
\* so far, and read_exact fails
PollEof ==
    /\ Reading /\ ~task.waiting
    /\ input' = SubSeq(input, 1, task.pos)
    /\ task' = Fail(task, "Io").task
    /\ outcome' = Fail(task, "Io").outcome
    /\ UNCHANGED <<desc, debug_assertions, driver, mesh, window, block>>

\* the pending read is complete and the task runs on to its next await
Resume ==
    /\ driver = "parse_async" /\ task.pc # "done"
    /\ Len(task.buf) = Need(task)
    /\ \E r \in {resume(task, debug_assertions)} :
          task' = r.task /\ outcome' = r.outcome
    /\ UNCHANGED <<desc, input, debug_assertions, driver, mesh, window, block>>

\* the host builds the mesh of the collection the decoder returned
Build ==
    /\ outcome.kind = "Ok"
    /\ mesh.kind = "none"
    /\ mesh' = build(outcome, debug_assertions)
    /\ UNCHANGED <<desc, input, debug_assertions, driver, task, outcome, window, block>>

Next ==
    \/ Parse
    \/ PollRead \/ PollPending \/ Wake \/ PollEof \/ Resume
    \/ Build

Spec == Init /\ [][Next]_vars

(***************************************************************************)
(* What the claims speak of.                                                 *)
(***************************************************************************)
File == Encode(desc)

Returned == outcome.kind # "none"

\* the signed count the file holds for a curve
SignedCount(cv) == IF cv.looping THEN -Len(cv.points) ELSE Len(cv.points)

RECURSIVE TotalPoints(_)
TotalPoints(curves) ==
    IF curves = <<>> THEN 0 ELSE Len(Head(curves).points) + TotalPoints(Tail(curves))

\* the header names the format and declares the points the records hold
WellFormed(d) ==
    /\ FormatHeader(d.header)
    /\ d.header.number_of_control_points = TotalPoints(d.curves)

NumberOfCurves == outcome.header.number_of_curves
NumberOfControlPoints == outcome.header.number_of_control_points

\* C1: in every returned Collection first_control_points[0] is 0 and
\* first_control_points[curve count] is the control-point count of the header.
C1_OffsetsSpanDeclaredCount ==
    outcome.kind = "Ok" =>
        /\ outcome.first_control_points[1] = 0
        /\ outcome.first_control_points[NumberOfCurves + 1] = NumberOfControlPoints

\* C2: behind a valid signature a precision byte other than 0x44 fails with
\* InvalidPrecision, and behind a valid signature and precision a curve type
\* other than "C0" fails with InvalidCurve.
C2_FieldErrorKinds ==
    (Returned /\ Len(input) >= 4 /\ SubSeq(input, 1, 3) = SIGNATURE) =>
        /\ input[4] # PRECISION => outcome.kind = "InvalidPrecision"
        /\ (input[4] = PRECISION /\ Len(input) >= 6 /\ SubSeq(input, 5, 6) # CURVE)
              => outcome.kind = "InvalidCurve"

\* C3: whatever the byte source holds, the decoder returns a Collection or one
\* of the typed errors: it never panics.
C3_TypedOutcome == Returned => outcome.kind \in {"Ok"} \cup ErrorKinds

\* C4: a well-formed file cut short at any byte makes the decoder fail with Io
\* and return no Collection.  Contrapositive: on a well-formed file the
\* decoder returns anything else only when the reader held the whole file and
\* the decoder took every byte of it.
C4_TruncatedIsIo ==
    (Returned /\ WellFormed(desc)) =>
        IF outcome.kind = "Io"
        THEN /\ outcome.looping = <<>> /\ outcome.first_control_points = <<>>
             /\ outcome.control_points = <<>>
        ELSE Len(input) = Len(File) /\ outcome.pos = Len(File)

C4_Witness ==
    /\ WellFormed(desc) /\ outcome.kind = "Io"
    /\ Len(input) > 64 /\ Len(input) < Len(File)

\* C5: in every returned Collection looping[i] holds exactly when the signed
\* count of curve i is negative, and first_control_points[i+1] -
\* first_control_points[i] is the absolute value of that count.
C5_LoopingAndOffsets ==
    outcome.kind = "Ok" =>
        /\ Len(outcome.looping) = Len(desc.curves)
        /\ \A i \in 1..Len(desc.curves) :
              /\ outcome.looping[i] = (SignedCount(desc.curves[i]) < 0)
              /\ outcome.first_control_points[i + 1] - outcome.first_control_points[i]
                    = (IF SignedCount(desc.curves[i]) < 0 THEN -SignedCount(desc.curves[i])
                                                           ELSE SignedCount(desc.curves[i]))
              /\ outcome.first_control_points[i] <= outcome.first_control_points[i + 1]

C5_Witness ==
    /\ outcome.kind = "Ok"
    /\ \E i, j \in 1..Len(outcome.looping) :
          /\ outcome.looping[i] /\ ~outcome.looping[j]
          /\ outcome.first_control_points[j + 1] > outcome.first_control_points[j]

\* C6: for a Collection of n > 0 curves, p control points and k looping curves
\* (its offsets ending at p), the index buffer the mesh builder returns has
\* length p + k + (n - 1).
C6_IndexLength ==
    (/\ mesh.kind = "Ok"
     /\ Len(outcome.looping) > 0
     /\ outcome.first_control_points[NumberOfCurves + 1] = NumberOfControlPoints) =>
        Len(mesh.indices) =
            NumberOfControlPoints
              + Cardinality({i \in 1..Len(outcome.looping) : outcome.looping[i]})
              + (Len(outcome.looping) - 1)

\* C7: parse_async, however its bytes arrive and wherever it is suspended,
\* returns what parse returns for the same bytes.
C7_AsyncEqualsSync ==
    (driver = "parse_async" /\ Returned) => outcome = parse(input, debug_assertions)

C7_Witness ==
    /\ driver = "parse_async" /\ outcome.kind = "Ok"
    /\ Len(outcome.control_points) > 3

\* the offsets of a description: the running sum of its point counts
Offsets(d) == [i \in 1..(Len(d.curves) + 1) |-> TotalPoints(SubSeq(d.curves, 1, i - 1))]

DecodesTo(d) ==
    /\ outcome.kind = "Ok"
    /\ outcome.header = d.header
    /\ outcome.looping = [i \in 1..Len(d.curves) |-> d.curves[i].looping]
    /\ outcome.first_control_points = Offsets(d)
    /\ Len(outcome.control_points) = 3 * TotalPoints(d.curves)
    /\ \A i \in 1..Len(d.curves) : \A j \in 1..Len(d.curves[i].points) : \A c \in 1..3 :
          outcome.control_points[3 * (outcome.first_control_points[i] + (j - 1)) + c]
              = d.curves[i].points[j][c]

\* C8 as stated: any collection whose header names the format and declares
\* the points its curves hold decodes, from its file, to itself.
C8_RoundTripOfAny ==
    (WellFormed(desc) /\ input = File /\ Returned) => DecodesTo(desc)

\* C8, amended: a collection whose header names the format and declares the
\* points its curves hold, and in which no looping curve is empty, decodes
\* from its file to itself: the same header, looping flags and offsets, and
\* component c of point j of curve i at the flat index
\* 3 * (first_control_points[i] + j) + c.
C8_RoundTrip ==
    (/\ WellFormed(desc)
     /\ \A i \in 1..Len(desc.curves) : desc.curves[i].looping => desc.curves[i].points # <<>>
     /\ input = File
     /\ Returned) => DecodesTo(desc)

C8_Witness ==
    /\ WellFormed(desc) /\ input = File /\ outcome.kind = "Ok"
    /\ Len(desc.curves) = 2
    /\ desc.curves[1].looping /\ desc.curves[1].points # <<>>
    /\ desc.curves[2].points # <<>>

\* C9: when the first three bytes are not "BCC" the decoder fails with
\* InvalidSignature having taken exactly those three bytes, whatever follows
\* them: it never takes a fourth byte.
C9_SignatureFailsFast ==
    desc.header.signature # SIGNATURE =>
        /\ task.pos <= 3
        /\ (Returned /\ Len(input) >= 3) =>
              outcome.kind = "InvalidSignature" /\ outcome.pos = 3

C9_Witness ==
    /\ desc.header.signature # SIGNATURE
    /\ desc.header.precision # PRECISION
    /\ desc.header.up_direction \notin UP_DIRECTIONS
    /\ outcome.kind = "InvalidSignature"
    /\ Len(input) > 3

\* C10: in every returned Collection looping has the length of the curve
\* count, first_control_points one more, and control_points the control-point
\* count times the dimensions field of the header.  Stated of the Collections
\* decoded from whole files whose records hold the declared points, where the
\* claim already fails.
C10_ArrayLengths ==
    (outcome.kind = "Ok" /\ WellFormed(desc)) =>
        /\ Len(outcome.looping) = NumberOfCurves
        /\ Len(outcome.first_control_points) = NumberOfCurves + 1
        /\ Len(outcome.control_points) = NumberOfControlPoints * outcome.header.dimensions

\* C11: for a Collection with zero curves the mesh builder returns an index
\* buffer of length 0: the expected length is computed without underflow, so
\* the builder neither aborts nor reserves a wrapped-around capacity.  Stated
\* of the Collections of 3 dimensions, the ones the builder works with.
C11_ZeroCurves ==
    (/\ outcome.kind = "Ok"
     /\ Len(outcome.looping) = 0
     /\ outcome.header.dimensions = DIMENSIONS
     /\ mesh.kind # "none") =>
        mesh.kind = "Ok" /\ mesh.indices = <<>>

(***************************************************************************)
(* The blocking decoder and the mesh builder on files of the format whose    *)
(* curves are longer, and on files whose one record holds the most negative  *)
(* count.                                                                    *)
(***************************************************************************)
MaxMeshCurves == 2
MaxMeshCount == 2

LimitHeader(u, n, p) ==
    [signature |-> SIGNATURE, precision |-> PRECISION, curve |-> CURVE,
     dimensions |-> DIMENSIONS, up_direction |-> u, number_of_curves |-> n,
     number_of_control_points |-> p, file_information |-> FileInformation]

SmallShapes == UNION {[1..m -> BOOLEAN \X (0..MaxMeshCount)] : m \in 0..MaxMeshCurves}

\* a header that declares the points of the records or, for the shorter
\* files, one point more
LimitDescs ==
    {[header |-> LimitHeader(u, Len(b), TotalPoints(CurvesOf(b)) + extra),
      curves |-> CurvesOf(b)] :
        u \in UP_DIRECTIONS, extra \in 0..1, b \in SmallShapes}

\* the header of a file of one curve whose record holds the count i32::MIN and
\* no point
MinCountDescs ==
    {[header |-> LimitHeader(u, 1, p), curves |-> <<>>] : u \in UP_DIRECTIONS, p \in 0..1}

MinCountFile(d) == EncodeHeader(d.header) \o i32_to_le_bytes(I32_MIN)

LimitInit ==
    /\ \/ desc \in LimitDescs /\ input = Encode(desc)
       \/ desc \in MinCountDescs /\ input = MinCountFile(desc)
    /\ debug_assertions \in BOOLEAN
    /\ driver = "parse"
    /\ task = NoTask
    /\ outcome = NoOutcome
    /\ mesh = NoMesh
    /\ window = NoWindow
    /\ block = NoBlock

LimitNext == Parse \/ Build

LimitSpec == LimitInit /\ [][LimitNext]_vars

\* the curves of the returned Collection, the range of curve i and whether a
\* restart index follows it
Curves == 1..Len(outcome.looping)
RangeStart(i) == outcome.first_control_points[i]
RangeEnd(i) == outcome.first_control_points[i + 1]
Restarts(i) == RangeEnd(i) # NumberOfControlPoints

\* the length of the block of curve i and the number of indices before it
BlockLen(i) ==
    (RangeEnd(i) - RangeStart(i))
        + (IF outcome.looping[i] THEN 1 ELSE 0) + (IF Restarts(i) THEN 1 ELSE 0)

RECURSIVE BlockStart(_)
BlockStart(i) == IF i = 1 THEN 0 ELSE BlockStart(i - 1) + BlockLen(i - 1)

\* C12: the index buffer is the blocks of the curves one after the other, in
\* curve order; the block of the curve of range [l, r) is l, l+1, ..., r-1,
\* then l once more exactly when the curve is looping, then the restart index
\* exactly when r differs from the control-point count of the header.
C12_IndexBlocks ==
    mesh.kind = "Ok" =>
        /\ Len(mesh.indices) = BlockStart(Len(outcome.looping) + 1)
        /\ \A i \in Curves :
              LET l == RangeStart(i)
                  r == RangeEnd(i)
                  at == BlockStart(i)
              IN  /\ r >= l
                  /\ \A k \in 1..(r - l) : mesh.indices[at + k] = usize(l + k - 1)
                  /\ outcome.looping[i] => mesh.indices[at + (r - l) + 1] = usize(l)
                  /\ Restarts(i) => mesh.indices[at + BlockLen(i)] = U32_MAX

\* a single looping curve of 2 points gives [0, 1, 0]
C12_Witness ==
    /\ mesh.kind = "Ok"
    /\ outcome.looping = <<TRUE>>
    /\ outcome.first_control_points = <<0, 2>>
    /\ NumberOfControlPoints = 2
    /\ mesh.indices = <<usize(0), usize(1), usize(0)>>

(***************************************************************************)
(* The loop of the mesh builder on one curve, at the ends of the index type: *)
(* the curve of range [l, r) of a Collection of number_of_control_points     *)
(* points, with l <= r <= number_of_control_points as the decoder leaves     *)
(* them and a looping curve never empty.  The offsets are within             *)
(* MaxWindow of 0 and of u32::MAX, on either side of it.                     *)
(***************************************************************************)
MaxWindow == 3

WindowBases == {usize(0), <<Half - 1, Half - 1 - MaxWindow>>}

Windows ==
    {[l |-> usize_add(base, a), r |-> usize_add(base, a + len), looping |-> looping,
      number_of_control_points |-> usize_add(base, a + len + more)] :
        base \in WindowBases, a \in 0..(MaxWindow + 1), len \in 0..MaxWindow,
        more \in 0..1, looping \in BOOLEAN}

WindowInit ==
    /\ window \in {w \in Windows : w.looping => w.l # w.r}
    /\ block = NoBlock
    /\ debug_assertions \in BOOLEAN
    /\ desc = [header |-> NoHeader, curves |-> <<>>]
    /\ input = <<>>
    /\ driver = "build"
    /\ task = NoTask
    /\ outcome = NoOutcome
    /\ mesh = NoMesh

\* one turn of the loop of build
BuildCurve ==
    /\ driver = "build"
    /\ block.kind = "none"
    /\ block' = curve_block(window.l, window.r, window.looping, window.number_of_control_points)
    /\ UNCHANGED <<desc, input, debug_assertions, driver, task, outcome, mesh, window>>

WindowSpec == WindowInit /\ [][BuildCurve]_vars

\* the entries of a block that refer to vertices: those of the range and the
\* repeat of the start that closes a loop
RangeEntries(w) == IF w.r[1] = w.l[1] THEN w.r[2] - w.l[2] ELSE w.r[2] + Half - w.l[2]
VertexEntries == 1..(RangeEntries(window) + (IF window.looping THEN 1 ELSE 0))

\* C13: the restart index is never a vertex reference: in every block of
\* indices the builder writes, each entry written as an index of the range or
\* as the repeat that closes a loop is strictly less than u32::MAX and is a
\* position of the vertex list, which has number_of_control_points vertices;
\* this up to and including the largest Collection the builder accepts, whose
\* last curve ends at u32::MAX.
C13_SentinelReserved ==
    block.kind = "Ok" =>
        /\ Len(block.indices) >= Cardinality(VertexEntries)
        /\ \A k \in VertexEntries :
              /\ usize_lt(block.indices[k], U32_MAX)
              /\ usize_lt(block.indices[k], window.number_of_control_points)

\* the last curve of the largest Collection the builder accepts: a looping
\* curve of range [u32::MAX - 2, u32::MAX)
C13_Witness ==
    /\ block.kind = "Ok"
    /\ window.r = U32_MAX
    /\ window.number_of_control_points = U32_MAX
    /\ window.looping
    /\ block.indices = <<<<Half - 1, Half - 3>>, <<Half - 1, Half - 2>>, <<Half - 1, Half - 3>>>>

\* whether the decoder has read a record whose count is i32::MIN
MinCountRead ==
    /\ Returned
    /\ Len(input) >= 68
    /\ SubSeq(input, 65, 68) = i32_to_le_bytes(I32_MIN)
    /\ u64_from_le_bytes(SubSeq(input, 9, 16)) >= 1

\* C14: size arithmetic in the decoder never crashes or wraps silently: a
\* derived quantity that leaves its range ends the decode with a typed
\* capacity error.  Stated of the absolute value of a per-curve count that is
\* the most negative 32-bit value: the decode ends with TooManyControlPoints.
C14_SizeArithmeticTyped ==
    MinCountRead => outcome.kind \in {"TooManyCurves", "TooManyControlPoints"}

====
